---- MODULE Spec2Model ----
(***************************************************************************)
(* Pointer tagging (chering): the layout constants of HasLayout, the Tag   *)
(* value type and the TagPtr packed word, over a machine word of BITS      *)
(* bits.  Addresses are plain integers (provenance is not modelled).       *)
(***************************************************************************)
EXTENDS Integers, Sequences, FiniteSets

\* Width of usize in the model (the program's usize::BITS, scaled down).
WordBits == 4

VARIABLES
    align,              \* mem::align_of::<T>() of the type the pointers point to
    debug_assertions,   \* cfg!(debug_assertions) of the build
    tp,                 \* the caller's TagPtr<T> place: <<>> (none) or <<raw>>
    old,                \* tp as it was when the last call was made
    call,               \* the last call: [fn, ptr, tag, other]
    ret,                \* what the last call produced: [kind, val]
    lastPtr,            \* the pointer most recently written into tp
    lastTag             \* the tag most recently written into tp

vars == <<align, debug_assertions, tp, old, call, ret, lastPtr, lastTag>>

----------------------------------------------------------------------------
\* Machine words and the bit operations the code uses.

BITS == WordBits

RECURSIVE Pow2(_)
Pow2(n) == IF n = 0 THEN 1 ELSE 2 * Pow2(n - 1)

usizeMAX == Pow2(BITS) - 1

Word == 0 .. usizeMAX

\* NonNull<T>: every address but 0.
NonNulls == 1 .. usizeMAX

RECURSIVE BitAnd(_, _)
BitAnd(a, b) ==
    IF a = 0 \/ b = 0 THEN 0
    ELSE (a % 2) * (b % 2) + 2 * BitAnd(a \div 2, b \div 2)

RECURSIVE BitOr(_, _)
BitOr(a, b) ==
    IF a = 0 THEN b
    ELSE IF b = 0 THEN a
    ELSE (IF a % 2 = 1 \/ b % 2 = 1 THEN 1 ELSE 0) + 2 * BitOr(a \div 2, b \div 2)

RECURSIVE BitNotN(_, _)
BitNotN(a, n) ==
    IF n = 0 THEN 0
    ELSE (1 - (a % 2)) + 2 * BitNotN(a \div 2, n - 1)

\* !x on a usize
BitNot(a) == BitNotN(a, BITS)

\* The value standing for a shift whose amount is not below BITS (the
\* constant evaluation fails, no mask exists).
ShiftOverflow == 0 - 1

\* x >> s on a usize
Shr(x, s) == IF s >= BITS THEN ShiftOverflow ELSE x \div Pow2(s)

RECURSIVE trailing_zeros(_)
trailing_zeros(x) ==
    IF x = 0 THEN BITS
    ELSE IF x % 2 = 1 THEN 0
    ELSE 1 + trailing_zeros(x \div 2)

----------------------------------------------------------------------------
\* layout.rs: HasLayout

ALIGN == align

ALIGN_BITS == trailing_zeros(align)

TAGGING_ALLOWED == ALIGN_BITS # 0

\* Faulty variant: the mask shifted without the special case for ALIGN_BITS = 0.
ALIGN_MASK_noSpecialCase == Shr(usizeMAX, BITS - ALIGN_BITS)

ALIGN_MASK ==
    LET shift == BITS - ALIGN_BITS
    IN  IF shift < BITS THEN Shr(usizeMAX, shift) ELSE 0

TAG_MASK == ALIGN_MASK

PTR_MASK == BitNot(TAG_MASK)

----------------------------------------------------------------------------
\* Values returned by the calls.

Ret(k, v) == [kind |-> k, val |-> v]

Panic == Ret("panic", 0)

\* Undefined behaviour was executed; Outcomes gives what may be observed.
UB == Ret("ub", 0)

Outcomes(r) ==
    IF r.kind = "ub" THEN {Ret("ub", w) : w \in Word} ELSE {r}

----------------------------------------------------------------------------
\* tag_ptr.rs: Tag<T>; a Tag is represented by its `tag` field.

Tag_MIN == 0

Tag_MAX == TAG_MASK

\* Faulty variant: the tag tested against the pointer mask.
is_valid_wrongMask(v) == BitAnd(v, PTR_MASK) = v

is_valid(v) == BitAnd(v, TAG_MASK) = v

Tag_new(v) == IF is_valid(v) THEN Ret("SomeTag", v) ELSE Ret("None", 0)

Tag_new_unchecked(v) ==
    LET r == Tag_new(v)
    IN  IF r.kind = "SomeTag" THEN Ret("Tag", r.val)
        ELSE IF debug_assertions THEN Panic
        ELSE UB

\* get() reads the field; a Tag always satisfies is_valid (see Tags).
Tag_get(t) == t

\* The Tag<T> values safe code can hold.
Tags == {v \in Word : Tag_new(v).kind = "SomeTag"}

----------------------------------------------------------------------------
\* tag_ptr.rs: TagPtr<T>; a TagPtr is represented by the address of `raw`.

is_aligned(p) == BitAnd(p, ALIGN - 1) = 0

\* Faulty variant: the sentinel built from ALIGN_BITS instead of ALIGN.
dangling_usesAlignBits(t) == Ret("TagPtr", BitOr(ALIGN_BITS, Tag_get(t)))

dangling(t) == Ret("TagPtr", BitOr(ALIGN, Tag_get(t)))

\* Faulty variant: the tag is not stored.
try_new_dropsTag(p, t) ==
    IF is_aligned(p) THEN Ret("Some", p) ELSE Ret("None", 0)

\* Faulty variant: no alignment check.
try_new_noCheck(p, t) == Ret("Some", BitOr(p, Tag_get(t)))

\* Faulty variant: a misaligned address is masked instead of rejected.
try_new_truncates(p, t) ==
    Ret("Some", BitOr(BitAnd(p, PTR_MASK), Tag_get(t)))

try_new(p, t) ==
    IF is_aligned(p) THEN Ret("Some", BitOr(p, Tag_get(t)))
    ELSE Ret("None", 0)

\* Faulty variant: no panic under debug assertions.
new_unchecked_noDebugPanic(p, t) ==
    LET r == IF is_aligned(p) THEN Ret("Some", BitOr(p, Tag_get(t)))
             ELSE Ret("None", 0)
    IN  IF r.kind = "Some" THEN Ret("TagPtr", r.val) ELSE UB

new_unchecked(p, t) ==
    LET r == try_new(p, t)
    IN  IF r.kind = "Some" THEN Ret("TagPtr", r.val)
        ELSE IF debug_assertions THEN Panic
        ELSE UB

new(p, t) ==
    LET r == try_new(p, t)
    IN  IF r.kind = "Some" THEN Ret("TagPtr", r.val) ELSE Panic

tag(raw) ==
    LET r == Tag_new(BitAnd(raw, TAG_MASK))
    IN  IF r.kind = "SomeTag" THEN Ret("Tag", r.val) ELSE Panic

\* Faulty variant: the tag bits are not masked off.
ptr_noMask(raw) == Ret("NonNull", raw)

ptr(raw) ==
    LET p == BitAnd(raw, PTR_MASK)
    IN  IF is_aligned(p) /\ p # 0 THEN Ret("NonNull", p) ELSE UB

with_tag(raw, t) ==
    LET p == ptr(raw)
    IN  IF p.kind = "NonNull" THEN new_unchecked(p.val, t) ELSE p

\* Faulty variant: the tag of self is not carried over.
with_ptr_dropsTag(raw, p) ==
    IF debug_assertions /\ ~is_aligned(p) THEN Panic
    ELSE IF is_aligned(p) THEN Ret("TagPtr", p)
    ELSE UB

with_ptr(raw, p) ==
    IF debug_assertions /\ ~is_aligned(p) THEN Panic
    ELSE LET t == tag(raw)
         IN  IF t.kind = "Tag" THEN new_unchecked(p, t.val) ELSE t

eq(a, b) == Ret("bool", IF a = b THEN 1 ELSE 0)

\* Faulty variant: only the pointer parts are compared.
cmp_ptrOnly(a, b) ==
    LET pa == BitAnd(a, PTR_MASK)
        pb == BitAnd(b, PTR_MASK)
    IN  Ret("Ordering", IF pa < pb THEN 0 - 1 ELSE IF pa = pb THEN 0 ELSE 1)

\* Ordering as -1 (Less), 0 (Equal), 1 (Greater)
cmp(a, b) == Ret("Ordering", IF a < b THEN 0 - 1 ELSE IF a = b THEN 0 ELSE 1)

\* The TagPtr<T> values the constructors hand out.
TagPtrs ==
    {r.val : r \in {x \in {try_new(p, t) : p \in NonNulls, t \in Tags} :
                        x.kind = "Some"}}

----------------------------------------------------------------------------
\* The state machine: one type T and one build, a caller making calls.

Call(f, p, t, o) == [fn |-> f, ptr |-> p, tag |-> t, other |-> o]

\* After undefined behaviour nothing more is modelled.
Running == ret.kind # "ub"

\* The associated functions take no self: the caller makes one of them its
\* first call, and the methods are then called on the TagPtr it bound.
Fresh == call.fn = "init"

Init ==
    /\ align \in {Pow2(k) : k \in 0 .. BITS - 1}
    /\ debug_assertions \in BOOLEAN
    /\ tp = <<>>
    /\ old = <<>>
    /\ call = Call("init", 0, 0, 0)
    /\ ret = Ret("unit", 0)
    /\ lastPtr = 0
    /\ lastTag = 0

\* let tp = <constructor>(..): r is what the constructor produced.
Bind(f, p, t, r, wp) ==
    /\ call' = Call(f, p, t, 0)
    /\ ret' = r
    /\ old' = <<>>
    /\ tp' = IF r.kind \in {"Some", "TagPtr", "ub"} THEN <<r.val>> ELSE <<>>
    /\ lastPtr' = IF r.kind \in {"Some", "TagPtr"} THEN wp ELSE 0
    /\ lastTag' = IF r.kind \in {"Some", "TagPtr"} THEN t ELSE 0
    /\ UNCHANGED <<align, debug_assertions>>

Dangling ==
    /\ Fresh
    /\ \E t \in Tags : Bind("dangling", 0, t, dangling(t), ALIGN)

TryNew ==
    /\ Fresh
    /\ \E p \in NonNulls, t \in Tags : Bind("try_new", p, t, try_new(p, t), p)

NewUnchecked ==
    /\ Fresh
    /\ \E p \in NonNulls, t \in Tags :
          \E r \in Outcomes(new_unchecked(p, t)) : Bind("new_unchecked", p, t, r, p)

New ==
    /\ Fresh
    /\ \E p \in NonNulls, t \in Tags : Bind("new", p, t, new(p, t), p)

\* A call on tp that does not assign to it.
Query(f, p, t, o, r) ==
    /\ call' = Call(f, p, t, o)
    /\ ret' = r
    /\ old' = tp
    /\ UNCHANGED <<align, debug_assertions, tp, lastPtr, lastTag>>

GetTag ==
    /\ Running /\ tp # <<>>
    /\ Query("tag", 0, 0, 0, tag(tp[1]))

GetPtr ==
    /\ Running /\ tp # <<>>
    /\ \E r \in Outcomes(ptr(tp[1])) : Query("ptr", 0, 0, 0, r)

WithTag ==
    /\ Running /\ tp # <<>>
    /\ \E t \in Tags :
          \E r \in Outcomes(with_tag(tp[1], t)) : Query("with_tag", 0, t, 0, r)

WithPtr ==
    /\ Running /\ tp # <<>>
    /\ \E p \in NonNulls :
          \E r \in Outcomes(with_ptr(tp[1], p)) : Query("with_ptr", p, 0, 0, r)

\* *self = r: a panic unwinds before the assignment.
Assign(f, p, t, r) ==
    /\ call' = Call(f, p, t, 0)
    /\ ret' = IF r.kind = "TagPtr" THEN Ret("unit", 0) ELSE r
    /\ old' = tp
    /\ tp' = IF r.kind \in {"TagPtr", "ub"} THEN <<r.val>> ELSE tp
    /\ UNCHANGED <<align, debug_assertions>>

SetTag ==
    /\ Running /\ tp # <<>>
    /\ \E t \in Tags :
          \E r \in Outcomes(with_tag(tp[1], t)) :
              /\ Assign("set_tag", 0, t, r)
              /\ lastTag' = IF r.kind = "TagPtr" THEN t ELSE lastTag
              /\ UNCHANGED lastPtr

SetPtr ==
    /\ Running /\ tp # <<>>
    /\ \E p \in NonNulls :
          \E r \in Outcomes(with_ptr(tp[1], p)) :
              /\ Assign("set_ptr", p, 0, r)
              /\ lastPtr' = IF r.kind = "TagPtr" THEN p ELSE lastPtr
              /\ UNCHANGED lastTag

Eq ==
    /\ Running /\ tp # <<>>
    /\ \E o \in TagPtrs : Query("eq", 0, 0, o, eq(tp[1], o))

Cmp ==
    /\ Running /\ tp # <<>>
    /\ \E o \in TagPtrs : Query("cmp", 0, 0, o, cmp(tp[1], o))

TagNew ==
    /\ Fresh
    /\ \E v \in Word : Query("Tag::new", 0, v, 0, Tag_new(v))

TagNewUnchecked ==
    /\ Fresh
    /\ \E v \in Word :
          \E r \in Outcomes(Tag_new_unchecked(v)) :
              Query("Tag::new_unchecked", 0, v, 0, r)

Next ==
    \/ Dangling
    \/ TryNew
    \/ NewUnchecked
    \/ New
    \/ GetTag
    \/ GetPtr
    \/ WithTag
    \/ WithPtr
    \/ SetTag
    \/ SetPtr
    \/ Eq
    \/ Cmp
    \/ TagNew
    \/ TagNewUnchecked

Spec == Init /\ [][Next]_vars

----------------------------------------------------------------------------
\* Properties.

\* The caller holds a TagPtr and no undefined behaviour has been executed.
Held == Running /\ tp # <<>>

\* p is a multiple of the alignment.
MultipleOfAlign(p) == p % align = 0

\* (pa, ta) before (pb, tb) in lexicographic order
LexLess(pa, ta, pb, tb) == pa < pb \/ (pa = pb /\ ta < tb)

\* C1: round trip. try_new on a non-null multiple p of the alignment and a
\* tag t within tag_mask succeeds with raw word p | t; ptr() of the result is
\* exactly p and tag().get() is exactly t.
C1_RoundTrip ==
    (call.fn = "try_new" /\ MultipleOfAlign(call.ptr) /\ call.ptr # 0
        /\ BitAnd(call.tag, TAG_MASK) = call.tag)
    => /\ ret = Ret("Some", BitOr(call.ptr, call.tag))
       /\ ret.val = call.ptr + call.tag
       /\ ptr(ret.val) = Ret("NonNull", call.ptr)
       /\ tag(ret.val).kind = "Tag"
       /\ Tag_get(tag(ret.val).val) = call.tag

\* 4-byte aligned type, address 0b1000, tag 0b10: raw 0b1010, ptr 8, tag 2.
C1_Witness ==
    /\ call.fn = "try_new" /\ align = 4 /\ call.ptr = 8 /\ call.tag = 2
    /\ ret = Ret("Some", 10)
    /\ ptr(10) = Ret("NonNull", 8) /\ tag(10) = Ret("Tag", 2)

\* The three parts of the TagPtr invariant, for a raw word.
TagPtrInvariant(raw) ==
    /\ raw # 0
    /\ BitAnd(raw, PTR_MASK) # 0
    /\ BitAnd(BitAnd(raw, PTR_MASK), TAG_MASK) = 0
    /\ MultipleOfAlign(BitAnd(raw, PTR_MASK))
    /\ BitAnd(raw, TAG_MASK) <= align - 1
    /\ tag(raw).kind = "Tag"
    /\ ptr(raw).kind = "NonNull"

\* C2: every TagPtr held or returned, in any state reached without undefined
\* behaviour, has a non-zero raw word whose pointer part is non-zero and
\* aligned and whose tag part is a valid tag; tag() does not fail on it and
\* ptr() is neither null nor misaligned.
C2_TagPtrInvariant ==
    /\ Held => TagPtrInvariant(tp[1])
    /\ (Running /\ ret.kind \in {"Some", "TagPtr"}) => TagPtrInvariant(ret.val)
    /\ call.fn = "tag" => ret.kind = "Tag"
    /\ (call.fn = "ptr" /\ Running)
       => (ret.kind = "NonNull" /\ ret.val # 0 /\ MultipleOfAlign(ret.val))

C2_Witness ==
    /\ call.fn = "set_ptr" /\ ret.kind = "unit" /\ old # <<>> /\ tp # old
    /\ BitAnd(tp[1], TAG_MASK) # 0
    /\ TagPtrInvariant(tp[1])

\* C3: try_new succeeds exactly when the address has no bit inside tag_mask,
\* returns None otherwise whatever the tag, and a TagPtr it returns carries
\* every bit of the address.
C3_TryNewRejects ==
    call.fn = "try_new"
    => /\ ret.kind \in {"Some", "None"}
       /\ (ret.kind = "Some") <=> (BitAnd(call.ptr, TAG_MASK) = 0)
       /\ (ret.kind = "Some") <=> MultipleOfAlign(call.ptr)
       /\ ret.kind = "None" => tp = <<>>
       /\ ret.kind = "Some" => BitAnd(ret.val, PTR_MASK) = call.ptr

C3_Witness ==
    /\ call.fn = "try_new" /\ align = 4 /\ call.ptr = 6 /\ call.tag = 1
    /\ ret.kind = "None"

\* C4: Tag::new(v) returns a Tag whose get() is v exactly when
\* v & tag_mask = v, which is exactly when MIN = 0 <= v <= MAX = tag_mask,
\* and returns None otherwise: tag_mask + 1 is rejected, and for a 1-byte
\* aligned type every value but 0 is.
C4_TagNew ==
    call.fn = "Tag::new"
    => LET v == call.tag
       IN  /\ ret.kind \in {"SomeTag", "None"}
           /\ (ret.kind = "SomeTag") <=> (BitAnd(v, TAG_MASK) = v)
           /\ (ret.kind = "SomeTag") <=> (Tag_MIN <= v /\ v <= Tag_MAX)
           /\ Tag_MIN = 0 /\ Tag_get(Tag_MIN) = 0
           /\ Tag_MAX = align - 1 /\ Tag_get(Tag_MAX) = TAG_MASK
           /\ ret.kind = "SomeTag" => Tag_get(ret.val) = v
           /\ v = TAG_MASK + 1 => ret.kind = "None"
           /\ (align = 1 /\ v # 0) => ret.kind = "None"

C4_Witness ==
    /\ call.fn = "Tag::new" /\ align = 4 /\ call.tag = TAG_MASK + 1
    /\ ret.kind = "None"

\* C5: for alignment 2^k, k below the word width: ALIGN_BITS = k,
\* TAG_MASK = 2^k - 1 = usize::MAX >> (BITS - k) with k = 0 giving 0 without
\* a shift by BITS, TAGGING_ALLOWED iff k > 0, and PTR_MASK the complement of
\* TAG_MASK: the masks are disjoint and cover the word.
C5_LayoutMasks ==
    \E k \in 0 .. BITS - 1 :
        /\ align = Pow2(k)
        /\ ALIGN_BITS = k
        /\ TAG_MASK = align - 1
        /\ TAG_MASK # ShiftOverflow
        /\ k > 0 => TAG_MASK = usizeMAX \div Pow2(BITS - k)
        /\ k = 0 => TAG_MASK = 0
        /\ TAGGING_ALLOWED <=> k > 0
        /\ PTR_MASK = usizeMAX - TAG_MASK
        /\ BitAnd(TAG_MASK, PTR_MASK) = 0
        /\ BitOr(TAG_MASK, PTR_MASK) = usizeMAX
        /\ TAG_MASK + PTR_MASK = usizeMAX

C5_Witness ==
    /\ align = 1 /\ ALIGN_BITS = 0 /\ TAG_MASK = 0 /\ PTR_MASK = usizeMAX
    /\ ~TAGGING_ALLOWED
    /\ call.fn = "ptr" /\ ret = Ret("NonNull", tp[1])

\* C6: with_tag/set_tag keep ptr() and make tag() the new tag; with_ptr and
\* set_ptr with an aligned pointer keep tag() and make ptr() the new pointer;
\* so the TagPtr held always equals try_new(last pointer set, last tag set).
C6_UpdateFrame ==
    /\ (call.fn = "with_tag" /\ Running)
       => /\ ret.kind = "TagPtr"
          /\ ptr(ret.val) = ptr(tp[1])
          /\ tag(ret.val) = Ret("Tag", call.tag)
    /\ (call.fn = "set_tag" /\ Running)
       => /\ ret = Ret("unit", 0)
          /\ ptr(tp[1]) = ptr(old[1])
          /\ tag(tp[1]) = Ret("Tag", call.tag)
    /\ (call.fn = "with_ptr" /\ MultipleOfAlign(call.ptr))
       => /\ ret.kind = "TagPtr"
          /\ tag(ret.val) = tag(tp[1])
          /\ ptr(ret.val) = Ret("NonNull", call.ptr)
    /\ (call.fn = "set_ptr" /\ MultipleOfAlign(call.ptr))
       => /\ ret = Ret("unit", 0)
          /\ tag(tp[1]) = tag(old[1])
          /\ ptr(tp[1]) = Ret("NonNull", call.ptr)
    /\ Held => try_new(lastPtr, lastTag) = Ret("Some", tp[1])
    /\ (call.fn = "ptr" /\ Running) => ret = Ret("NonNull", lastPtr)
    /\ call.fn = "tag" => ret = Ret("Tag", lastTag)

C6_Witness ==
    /\ call.fn = "set_ptr" /\ ret = Ret("unit", 0)
    /\ align = 4 /\ old = <<7>> /\ call.ptr = 8 /\ tp = <<11>>
    /\ lastPtr = 8 /\ lastTag = 3

\* C7: idempotence. with_tag(self.tag()) and with_ptr(self.ptr()) return a
\* TagPtr with the raw word of self, for every TagPtr held (a dangling one
\* too).
C7_Idempotence ==
    /\ (call.fn = "with_tag" /\ Running /\ tag(tp[1]) = Ret("Tag", call.tag))
       => /\ ret = Ret("TagPtr", tp[1])
          /\ eq(ret.val, tp[1]).val = 1
    /\ (call.fn = "with_ptr" /\ Running /\ ptr(tp[1]) = Ret("NonNull", call.ptr))
       => /\ ret = Ret("TagPtr", tp[1])
          /\ eq(ret.val, tp[1]).val = 1
    /\ Held => BitOr(BitAnd(tp[1], PTR_MASK), BitAnd(tp[1], TAG_MASK)) = tp[1]

\* with_ptr(self.ptr()) on the raw word of dangling(3) for a 4-byte type
C7_Witness ==
    /\ call.fn = "with_ptr" /\ align = 4 /\ tp = <<7>> /\ call.ptr = 4
    /\ dangling(3).val = 7
    /\ ret = Ret("TagPtr", 7)

\* C8: dangling(t) has raw word ALIGN | t, never zero; its ptr() is ALIGN,
\* the smallest non-zero aligned address, and its tag() is t.  For ALIGN = 1
\* the tag is 0 and the raw word 1.
C8_Dangling ==
    call.fn = "dangling"
    => /\ ret = Ret("TagPtr", BitOr(align, call.tag))
       /\ ret.val = align + call.tag
       /\ ret.val # 0
       /\ ptr(ret.val) = Ret("NonNull", align)
       /\ tag(ret.val) = Ret("Tag", call.tag)
       /\ \A q \in NonNulls : MultipleOfAlign(q) => align <= q
       /\ align = 1 => (call.tag = 0 /\ ret.val = 1)
       /\ tp = <<ret.val>>

C8_Witness ==
    /\ call.fn = "dangling" /\ align = 8 /\ call.tag = 5
    /\ ret = Ret("TagPtr", 13)

\* C9: on a pointer with address & tag_mask # 0, new panics in every build;
\* with debug assertions new_unchecked, with_ptr and set_ptr panic too, and
\* Tag::new_unchecked panics on a value outside tag_mask.  No value is
\* produced, and a failing set_ptr leaves the TagPtr as it was.
C9_MisalignedFatal ==
    LET misaligned == BitAnd(call.ptr, TAG_MASK) # 0
    IN  /\ (call.fn = "new" /\ misaligned) => (ret = Panic /\ tp = <<>>)
        /\ (debug_assertions /\ call.fn = "new_unchecked" /\ misaligned)
           => (ret = Panic /\ tp = <<>>)
        /\ (debug_assertions /\ call.fn = "with_ptr" /\ misaligned)
           => (ret = Panic /\ tp = old)
        /\ (debug_assertions /\ call.fn = "set_ptr" /\ misaligned)
           => (ret = Panic /\ tp = old)
        /\ (debug_assertions /\ call.fn = "Tag::new_unchecked"
               /\ BitAnd(call.tag, TAG_MASK) # call.tag)
           => (ret = Panic /\ tp = <<>>)

C9_Witness ==
    /\ debug_assertions /\ call.fn = "set_ptr" /\ align = 4
    /\ call.ptr = 6 /\ ret = Panic /\ tp = <<9>> /\ old = <<9>>

\* C10: two TagPtrs are equal iff their ptr() and their tag() are equal, and
\* one is less than the other iff its (ptr() address, tag().get()) pair is
\* lexicographically less.
C10_Comparison ==
    (call.fn \in {"eq", "cmp"})
    => LET a  == tp[1]
           b  == call.other
           pa == ptr(a).val
           ta == Tag_get(tag(a).val)
           pb == ptr(b).val
           tb == Tag_get(tag(b).val)
       IN  /\ ptr(a).kind = "NonNull" /\ ptr(b).kind = "NonNull"
           /\ tag(a).kind = "Tag" /\ tag(b).kind = "Tag"
           /\ call.fn = "eq"
              => (ret.val = 1 <=> (pa = pb /\ ta = tb))
           /\ call.fn = "cmp"
              => /\ ret.val = 0 - 1 <=> LexLess(pa, ta, pb, tb)
                 /\ ret.val = 0 <=> (pa = pb /\ ta = tb)
                 /\ ret.val = 1 <=> LexLess(pb, tb, pa, ta)

\* same address, decided by the tag; the raw words differ
C10_Witness ==
    /\ call.fn = "cmp" /\ align = 4 /\ tp = <<9>> /\ call.other = 10
    /\ ret = Ret("Ordering", 0 - 1)

====
